---- MODULE Spec2Model ----
(***************************************************************************)
(* Model of pants.backend.go.subsystems.gotest.GoTestSubsystem: the option *)
(* declarations of the Go test subsystem and its one computed operation,   *)
(* coverage_output_dir.                                                    *)
(*                                                                         *)
(* Python strings are sequences of one-character strings, so that          *)
(* str.replace, str.format and PurePath act on characters as they do in    *)
(* the interpreter.  A PurePath value is represented by its str() form     *)
(* (POSIX flavour), which determines it.                                   *)
(***************************************************************************)
EXTENDS Naturals, Sequences, FiniteSets

VARIABLES
    options,    \* raw option values handed over by the option layer
    phase,      \* "init", "validated", "failed" or "ready"
    error,      \* name of the error construction ended with, or "none"
    config,     \* {} or {the one published configuration}
    calls,      \* per worker: the last call it completed
    expanded,   \* SpecExpand: result of one coverage_output_dir call
    reexpanded  \* SpecExpand: result of expanding that result again

vars == <<options, phase, error, config, calls, expanded, reexpanded>>

----------------------------------------------------------------------------
(* Bounds *)

\* Longest generated import path.
MaxLen == 3

\* Most options the option layer overrides at once in Spec.
MaxOverrides == 2

----------------------------------------------------------------------------
(* Strings *)

RECURSIVE StringsUpTo(_, _)
StringsUpTo(alphabet, n) ==
    IF n = 0 THEN {<<>>}
    ELSE LET shorter == StringsUpTo(alphabet, n - 1)
         IN  shorter \cup {Append(s, c) : s \in shorter, c \in alphabet}

\* sub occurs in s starting at index i
OccursAt(sub, s, i) ==
    /\ i >= 1
    /\ i + Len(sub) - 1 <= Len(s)
    /\ \A k \in 1..Len(sub) : s[i + k - 1] = sub[k]

IsInfix(sub, s) == \E i \in 1..(Len(s) + 1) : OccursAt(sub, s, i)

Occurrences(sub, s) == Cardinality({i \in 1..Len(s) : OccursAt(sub, s, i)})

CountChar(c, s) == Cardinality({i \in 1..Len(s) : s[i] = c})

----------------------------------------------------------------------------
(* str.replace(old, new) for one-character old and new *)

RECURSIVE replace(_, _, _)
\* str.replace with count = 1: only the first occurrence is replaced.
replace_first(s, old, new) ==
    IF \E i \in 1..Len(s) : s[i] = old
    THEN LET i == CHOOSE i \in 1..Len(s) :
                    s[i] = old /\ \A j \in 1..(i - 1) : s[j] # old
         IN  [s EXCEPT ![i] = new]
    ELSE s

\* The call leaves the string as it was.
replace_none(s, old, new) == s

replace(s, old, new) ==
    IF s = <<>> THEN <<>>
    ELSE <<IF Head(s) = old THEN new ELSE Head(s)>> \o replace(Tail(s), old, new)

----------------------------------------------------------------------------
(* str.format with keyword arguments, for format strings whose            *)
(* replacement fields are plain names (no conversion, format spec,         *)
(* attribute or index).                                                    *)

Ok(out) == [ok |-> TRUE, out |-> out, err |-> "none"]
Err(e) == [ok |-> FALSE, out |-> <<>>, err |-> e]

\* Index of the first brace after position i, or 0.
NextBrace(fmt, i) ==
    IF \E j \in (i + 1)..Len(fmt) : fmt[j] \in {"{", "}"}
    THEN CHOOSE j \in (i + 1)..Len(fmt) :
            /\ fmt[j] \in {"{", "}"}
            /\ \A k \in (i + 1)..(j - 1) : fmt[k] \notin {"{", "}"}
    ELSE 0

Lookup(kwargs, name) ==
    IF name = <<>> THEN Err("IndexError")
    ELSE IF \E kv \in kwargs : kv.key = name
    THEN Ok((CHOOSE kv \in kwargs : kv.key = name).value)
    ELSE Err("KeyError")

Prepend(text, rest) == IF rest.ok THEN Ok(text \o rest.out) ELSE rest

RECURSIVE FormatFrom(_, _, _)
FormatFrom(fmt, i, kwargs) ==
    IF i > Len(fmt) THEN Ok(<<>>)
    ELSE IF fmt[i] = "{" THEN
        IF i < Len(fmt) /\ fmt[i + 1] = "{"
        THEN Prepend(<<"{">>, FormatFrom(fmt, i + 2, kwargs))
        ELSE LET j == NextBrace(fmt, i)
             IN  IF j = 0 \/ fmt[j] = "{" THEN Err("ValueError")
                 ELSE LET v == Lookup(kwargs, SubSeq(fmt, i + 1, j - 1))
                      IN  IF v.ok THEN Prepend(v.out, FormatFrom(fmt, j + 1, kwargs))
                          ELSE v
    ELSE IF fmt[i] = "}" THEN
        IF i < Len(fmt) /\ fmt[i + 1] = "}"
        THEN Prepend(<<"}">>, FormatFrom(fmt, i + 2, kwargs))
        ELSE Err("ValueError")
    ELSE Prepend(<<fmt[i]>>, FormatFrom(fmt, i + 1, kwargs))

\* The inserted text is scanned for fields once more.
format_rescan(fmt, kwargs) ==
    LET r == FormatFrom(fmt, 1, kwargs)
    IN  IF r.ok THEN FormatFrom(r.out, 1, kwargs) ELSE r

\* The scan stops one character early.
format_short(fmt, kwargs) == FormatFrom(SubSeq(fmt, 1, Len(fmt) - 1), 1, kwargs)

format(fmt, kwargs) == FormatFrom(fmt, 1, kwargs)

----------------------------------------------------------------------------
(* PurePath(s) and str() of it, POSIX flavour *)

RECURSIVE SplitOn(_, _)
SplitOn(s, sep) ==
    IF \E i \in 1..Len(s) : s[i] = sep
    THEN LET i == CHOOSE i \in 1..Len(s) :
                    s[i] = sep /\ \A j \in 1..(i - 1) : s[j] # sep
         IN  <<SubSeq(s, 1, i - 1)>> \o SplitOn(SubSeq(s, i + 1, Len(s)), sep)
    ELSE <<s>>

RECURSIVE JoinWith(_, _)
JoinWith(parts, sep) ==
    IF parts = <<>> THEN <<>>
    ELSE IF Len(parts) = 1 THEN parts[1]
    ELSE parts[1] \o <<sep>> \o JoinWith(Tail(parts), sep)

LeadingSlashes(s) ==
    Cardinality({i \in 1..Len(s) : \A j \in 1..i : s[j] = "/"})

PathRoot(s) ==
    LET n == LeadingSlashes(s)
    IN  IF n = 0 THEN <<>> ELSE IF n = 2 THEN <<"/", "/">> ELSE <<"/">>

PathParts(s) ==
    SelectSeq(SplitOn(s, "/"), LAMBDA part : part # <<>> /\ part # <<".">>)

PurePath(s) ==
    LET normal == PathRoot(s) \o JoinWith(PathParts(s), "/")
    IN  IF normal = <<>> THEN <<".">> ELSE normal

\* PurePath(seg1, seg2, ...) for relative segments
PurePathOf(segments) == PurePath(JoinWith(segments, "/"))

----------------------------------------------------------------------------
(* Literal strings of the source, and the inputs drawn in the checks *)

distdir_name == <<"d", "i", "s", "t", "d", "i", "r">>
import_path_escaped_name ==
    <<"i", "m", "p", "o", "r", "t", "_", "p", "a", "t", "h", "_", "e", "s", "c", "a", "p", "e", "d">>

Field(name) == <<"{">> \o name \o <<"}">>

\* "{distdir}/{unknown}"
TemplateUnknown == Field(distdir_name) \o <<"/">> \o Field(<<"u", "n", "k", "n", "o", "w", "n">>)
\* "{distdir}/{{x"
TemplateEscaped == Field(distdir_name) \o <<"/", "{", "{", "x">>
\* "cov/out"
TemplatePlain == <<"c", "o", "v", "/", "o", "u", "t">>
\* "{import_path_escaped}/{distdir}/{distdir}"
TemplateTwice ==
    Field(import_path_escaped_name) \o <<"/">> \o Field(distdir_name)
        \o <<"/">> \o Field(distdir_name)
\* "./{distdir}//{import_path_escaped}/"
TemplateDots ==
    <<".", "/">> \o Field(distdir_name) \o <<"/", "/">>
        \o Field(import_path_escaped_name) \o <<"/">>
\* "{distdir"
TemplateOpen == <<"{">> \o distdir_name
\* "{distdir}/}"
TemplateClose == Field(distdir_name) \o <<"/", "}">>

\* Values of the --go-test-coverage-output-dir option other than its default.
CustomTemplates ==
    {TemplateUnknown, TemplateEscaped, TemplatePlain, TemplateTwice,
     TemplateDots, TemplateOpen, TemplateClose}

\* "example.com/foo/bar"
ExampleImportPath == <<"e", "x", "a", "m", "p", "l", "e", ".", "c", "o", "m", "/", "f", "o", "o", "/", "b", "a", "r">>

PathAlphabet == {"a", "/", "_", "."}

ImportPaths ==
    StringsUpTo(PathAlphabet, MaxLen)
        \cup {ExampleImportPath, Field(distdir_name), <<"}">>,
              <<"{", "a", "/", "b", "}">>, <<"a", "/", "b">>, <<"a", "_", "b">>}

\* DistDir.relpath is a PurePath: every value is the str() of one.
DistDirs ==
    {[relpath |-> PurePath(s)] :
        s \in {<<"d", "i", "s", "t">>, <<>>, <<"a", "/", "b">>, <<"d">>,
               Field(import_path_escaped_name)}}

Workers == {"w1", "w2"}

----------------------------------------------------------------------------
(* The option declarations of GoTestSubsystem.  An option of the raw       *)
(* option record is {} when the user did not set it, else {its value}.     *)

OptionNames ==
    {"coverage_mode", "_coverage_output_dir", "coverage_html",
     "coverage_include_patterns", "skip", "force_race", "force_msan",
     "force_asan"}

ValueOr(opt, default) == IF opt = {} THEN default ELSE CHOOSE v \in opt : TRUE

\* The values the help of --cover-mode declares valid.
CoverModeValues_without_atomic == {"set", "count"}
CoverModeValues_with_bogus == {"set", "count", "atomic", "bogus"}
CoverModeValues == {"set", "count", "atomic"}

\* GoCoverMode(value): the member of the enumeration with that value.
GoCoverMode(value) ==
    CASE value = "set" -> "SET"
      [] value = "count" -> "COUNT"
      [] value = "atomic" -> "ATOMIC"
      [] OTHER -> "NO_MEMBER"

\* The Enumerated Choice Validator applied to a raw --cover-mode value.
ValidateChoice(value) ==
    IF value \in CoverModeValues
    THEN [ok |-> TRUE, member |-> GoCoverMode(value), err |-> "none"]
    ELSE [ok |-> FALSE, member |-> "NO_MEMBER", err |-> "InvalidChoice"]

coverage_mode(opts) ==
    IF opts.coverage_mode = {} THEN "SET"
    ELSE ValidateChoice(ValueOr(opts.coverage_mode, "")).member

default_coverage_output_dir ==
    PurePathOf(<<Field(distdir_name), <<"c", "o", "v", "e", "r", "a", "g", "e">>,
                 <<"g", "o">>, Field(import_path_escaped_name)>>)

_coverage_output_dir(opts) ==
    ValueOr(opts._coverage_output_dir, default_coverage_output_dir)

coverage_html_default_off(opts) == ValueOr(opts.coverage_html, FALSE)
coverage_html(opts) == ValueOr(opts.coverage_html, TRUE)

coverage_include_patterns(opts) == ValueOr(opts.coverage_include_patterns, <<>>)

skip(opts) == ValueOr(opts.skip, FALSE)

force_race(opts) == ValueOr(opts.force_race, FALSE)

force_msan(opts) == ValueOr(opts.force_msan, FALSE)

\* A copy of the declaration above that still reads the option above.
force_asan_reads_msan(opts) == ValueOr(opts.force_msan, FALSE)
force_asan(opts) == ValueOr(opts.force_asan, FALSE)

\* The subsystem instance built from the raw options.
GoTestSubsystem(opts) ==
    [coverage_mode |-> coverage_mode(opts),
     _coverage_output_dir |-> _coverage_output_dir(opts),
     coverage_html |-> coverage_html(opts),
     coverage_include_patterns |-> coverage_include_patterns(opts),
     skip |-> skip(opts),
     force_race |-> force_race(opts),
     force_msan |-> force_msan(opts),
     force_asan |-> force_asan(opts)]

----------------------------------------------------------------------------
(* GoTestSubsystem.coverage_output_dir *)

\* The body of the method: its local, the formatted string and the path.
ExpandTemplate(self, distdir, import_path) ==
    LET import_path_escaped == replace(import_path, "/", "_")
        formatted ==
            format(self._coverage_output_dir,
                   {[key |-> distdir_name, value |-> distdir.relpath],
                    [key |-> import_path_escaped_name, value |-> import_path_escaped]})
    IN  [import_path_escaped |-> import_path_escaped,
         formatted |-> formatted.out,
         ok |-> formatted.ok,
         err |-> formatted.err,
         path |-> IF formatted.ok THEN PurePath(formatted.out) ELSE <<>>]

\* The method keeps the expanded path in place of the template.
coverage_output_dir_caching(self, distdir, import_path) ==
    LET r == ExpandTemplate(self, distdir, import_path)
    IN  [self |-> IF r.ok THEN [self EXCEPT !._coverage_output_dir = r.path] ELSE self,
         result |-> r]

\* The instance after the call, and what the call returned or raised.
coverage_output_dir(self, distdir, import_path) ==
    [self |-> self, result |-> ExpandTemplate(self, distdir, import_path)]

----------------------------------------------------------------------------
(* Override resolution for the race detector and the two sanitizers *)

OptionalBool == {{}, {TRUE}, {FALSE}}

PerTargetOverrides == [race : OptionalBool, msan : OptionalBool, asan : OptionalBool]

\* The global force flag wins only together with the target's own field.
resolve_both(forceFlag, perTargetValue) == forceFlag /\ perTargetValue

resolve(forceFlag, perTargetValue) == IF forceFlag THEN TRUE ELSE perTargetValue

resolveSanitizers(self, perTarget) ==
    [race |-> resolve(self.force_race, ValueOr(perTarget.race, FALSE)),
     msan |-> resolve(self.force_msan, ValueOr(perTarget.msan, FALSE)),
     asan |-> resolve(self.force_asan, ValueOr(perTarget.asan, FALSE))]

----------------------------------------------------------------------------
(* Construction of the one configuration, and the workers that read it *)

NoCall == [op |-> "none"]

RawCoverModes == {"set", "count", "atomic", "bogus", "", "SET"}

OptionChoices ==
    [coverage_mode : {{}} \cup {{v} : v \in RawCoverModes},
     _coverage_output_dir : {{}, {TemplatePlain}, {TemplateUnknown}},
     coverage_html : {{}, {FALSE}},
     coverage_include_patterns : {{}, {<<"net/...">>}},
     skip : {{}, {TRUE}},
     force_race : OptionalBool,
     force_msan : OptionalBool,
     force_asan : OptionalBool]

Overridden(opts) == {n \in OptionNames : opts[n] # {}}

NoOverrides == [n \in OptionNames |-> {}]

Self == CHOOSE c \in config : TRUE

Init ==
    /\ options \in {o \in OptionChoices : Cardinality(Overridden(o)) <= MaxOverrides}
    /\ phase = "init"
    /\ error = "none"
    /\ config = {}
    /\ calls = [w \in Workers |-> NoCall]
    /\ expanded = NoCall
    /\ reexpanded = NoCall

\* Load and validate the options; an unrecognized coverage mode is fatal.
Validate ==
    /\ phase = "init"
    /\ LET bad == {v \in options.coverage_mode : ~ValidateChoice(v).ok}
       IN  IF bad = {}
           THEN phase' = "validated" /\ error' = error
           ELSE phase' = "failed" /\ error' = "InvalidChoice"
    /\ UNCHANGED <<options, config, calls, expanded, reexpanded>>

\* The validated configuration becomes visible to the workers, whole.
Publish ==
    /\ phase = "validated"
    /\ phase' = "ready"
    /\ config' = {GoTestSubsystem(options)}
    /\ UNCHANGED <<options, error, calls, expanded, reexpanded>>

CallCoverageOutputDir(w, distdir, import_path) ==
    /\ phase = "ready"
    /\ LET r == coverage_output_dir(Self, distdir, import_path)
       IN  /\ config' = {r.self}
           /\ calls' = [calls EXCEPT ![w] =
                           [op |-> "coverage_output_dir",
                            distdir |-> distdir,
                            import_path |-> import_path,
                            result |-> r.result]]
    /\ UNCHANGED <<options, phase, error, expanded, reexpanded>>

CallResolveSanitizers(w, perTarget) ==
    /\ phase = "ready"
    /\ calls' = [calls EXCEPT ![w] =
                    [op |-> "resolveSanitizers",
                     perTarget |-> perTarget,
                     result |-> resolveSanitizers(Self, perTarget)]]
    /\ UNCHANGED <<options, phase, error, config, expanded, reexpanded>>

\* A worker reads every field through the accessors.
ReadConfig(w) ==
    /\ phase = "ready"
    /\ calls' = [calls EXCEPT ![w] = [op |-> "read", result |-> Self]]
    /\ UNCHANGED <<options, phase, error, config, expanded, reexpanded>>

SpecDistDirs == {d \in DistDirs : d.relpath = <<"d", "i", "s", "t">>}
SpecImportPaths == {<<"a", "/", "b">>, ExampleImportPath}
SpecPerTargets ==
    {pt \in PerTargetOverrides : pt.race = pt.asan /\ pt.msan \in {{}, {TRUE}}}

Next ==
    \/ Validate
    \/ Publish
    \/ \E w \in Workers, d \in SpecDistDirs, p \in SpecImportPaths :
          CallCoverageOutputDir(w, d, p)
    \/ \E w \in Workers, pt \in SpecPerTargets : CallResolveSanitizers(w, pt)
    \/ \E w \in Workers : ReadConfig(w)

Spec == Init /\ [][Next]_vars

----------------------------------------------------------------------------
(* coverage_output_dir as a function of template, distdir and import path *)

InitExpand ==
    /\ options \in {[NoOverrides EXCEPT !._coverage_output_dir = t] :
                      t \in {{}} \cup {{c} : c \in CustomTemplates}}
    /\ phase = "ready"
    /\ error = "none"
    /\ config = {GoTestSubsystem(options)}
    /\ calls = [w \in Workers |-> NoCall]
    /\ expanded = NoCall
    /\ reexpanded = NoCall

Expand(distdir, import_path) ==
    /\ expanded = NoCall
    /\ LET r == coverage_output_dir(Self, distdir, import_path)
       IN  /\ config' = {r.self}
           /\ expanded' = [op |-> "coverage_output_dir",
                           distdir |-> distdir,
                           import_path |-> import_path,
                           result |-> r.result]
    /\ UNCHANGED <<options, phase, error, calls, reexpanded>>

\* A later stage expands the returned path again, as a template, with the
\* same substitution values.
ReExpand ==
    /\ expanded # NoCall
    /\ expanded.result.ok
    /\ reexpanded = NoCall
    /\ LET later == [Self EXCEPT !._coverage_output_dir = expanded.result.path]
           r == coverage_output_dir(later, expanded.distdir, expanded.import_path)
       IN  reexpanded' = [op |-> "coverage_output_dir",
                          distdir |-> expanded.distdir,
                          import_path |-> expanded.import_path,
                          result |-> r.result]
    /\ UNCHANGED <<options, phase, error, config, calls, expanded>>

NextExpand ==
    \/ \E d \in DistDirs, p \in ImportPaths : Expand(d, p)
    \/ ReExpand

SpecExpand == InitExpand /\ [][NextExpand]_vars

----------------------------------------------------------------------------
(* resolveSanitizers over every setting of the force flags *)

InitSan ==
    /\ options \in {o \in OptionChoices :
                      Overridden(o) \subseteq {"force_race", "force_msan", "force_asan"}}
    /\ phase = "ready"
    /\ error = "none"
    /\ config = {GoTestSubsystem(options)}
    /\ calls = [w \in Workers |-> NoCall]
    /\ expanded = NoCall
    /\ reexpanded = NoCall

NextSan == \E w \in Workers, pt \in PerTargetOverrides : CallResolveSanitizers(w, pt)

SpecSan == InitSan /\ [][NextSan]_vars

----------------------------------------------------------------------------
(* Construction runs to completion: loading the options is synchronous. *)

FairSpec == Spec /\ WF_vars(Validate) /\ WF_vars(Publish)

----------------------------------------------------------------------------
(* Properties *)

\* The import path with "_" at each position that holds "/".
Escaped(p) == [i \in 1..Len(p) |-> IF p[i] = "/" THEN "_" ELSE p[i]]

CoverageGoSlash == <<"/", "c", "o", "v", "e", "r", "a", "g", "e", "/", "g", "o", "/">>
CoverageGo == <<"c", "o", "v", "e", "r", "a", "g", "e", "/", "g", "o">>
DefaultTemplateText == <<"{", "d", "i", "s", "t", "d", "i", "r", "}", "/", "c", "o", "v", "e", "r", "a", "g", "e", "/", "g", "o", "/", "{", "i", "m", "p", "o", "r", "t", "_", "p", "a", "t", "h", "_", "e", "s", "c", "a", "p", "e", "d", "}">>

DefaultTemplateCall == expanded # NoCall /\ options._coverage_output_dir = {}

\* C1 as stated: with the default template, for every distdir d and import
\* path p the call returns exactly d + "/coverage/go/" + escape(p).
C1_ExactConcatenation ==
    DefaultTemplateCall =>
        /\ expanded.result.ok
        /\ expanded.result.path =
              expanded.distdir.relpath \o CoverageGoSlash \o Escaped(expanded.import_path)

\* C1 amended: the call returns the path of d + "/coverage/go/" + escape(p):
\* that very string when d is not "." and escape(p) is neither empty nor ".",
\* and otherwise the string without its "." distdir and without its empty or
\* "." last segment.
C1_NormalizedConcatenation ==
    DefaultTemplateCall =>
        LET d == expanded.distdir.relpath
            e == Escaped(expanded.import_path)
            head == IF d = <<".">> THEN <<>> ELSE d \o <<"/">>
            tail == IF e \in {<<>>, <<".">>} THEN <<>> ELSE <<"/">> \o e
        IN  /\ expanded.result.ok
            /\ expanded.result.path = head \o CoverageGo \o tail

C1_Witness ==
    /\ DefaultTemplateCall
    /\ expanded.distdir.relpath = <<"d", "i", "s", "t">>
    /\ expanded.import_path = ExampleImportPath
    /\ expanded.result.path = <<"d", "i", "s", "t", "/", "c", "o", "v", "e", "r", "a", "g", "e", "/", "g", "o", "/", "e", "x", "a", "m", "p", "l", "e", ".", "c", "o", "m", "_", "f", "o", "o", "_", "b", "a", "r">>

\* C2: a template with a field whose name is not in the mapping expands
\* without error, keeps that field as written and substitutes the others.
C2_UnknownFieldPassesThrough ==
    (expanded # NoCall /\ options._coverage_output_dir = {TemplateUnknown}) =>
        /\ expanded.result.ok
        /\ expanded.result.path =
              expanded.distdir.relpath \o <<"/">> \o Field(<<"u", "n", "k", "n", "o", "w", "n">>)

ModeMember(v) == IF v = "set" THEN "SET" ELSE IF v = "count" THEN "COUNT" ELSE "ATOMIC"

ValidRaw == options.coverage_mode \subseteq {"set", "count", "atomic"}

\* C3: for raw values set, count and atomic construction succeeds and stores
\* the matching member; any other raw value fails with InvalidChoice and
\* yields no member.
C3_CoverageModeValidation ==
    /\ (ValidRaw /\ phase # "init") => (phase \in {"validated", "ready"} /\ error = "none")
    /\ (ValidRaw /\ phase = "ready") =>
          \A v \in options.coverage_mode : Self.coverage_mode = ModeMember(v)
    /\ (~ValidRaw /\ phase # "init") =>
          (phase = "failed" /\ error = "InvalidChoice" /\ config = {})

C3_Witness ==
    /\ phase = "ready"
    /\ options.coverage_mode = {"atomic"}
    /\ Self.coverage_mode = "ATOMIC"

ForceOption(name) == options[name] = {TRUE}

\* C4: each effective value is its own force flag OR its own per-target
\* field, an absent field counting as false.
C4_ForceOrPerTarget ==
    \A w \in Workers :
        calls[w].op = "resolveSanitizers" =>
            /\ calls[w].result.race
                  = (ForceOption("force_race") \/ calls[w].perTarget.race = {TRUE})
            /\ calls[w].result.msan
                  = (ForceOption("force_msan") \/ calls[w].perTarget.msan = {TRUE})
            /\ calls[w].result.asan
                  = (ForceOption("force_asan") \/ calls[w].perTarget.asan = {TRUE})

C4_Witness ==
    /\ calls["w1"].op = "resolveSanitizers"
    /\ options.force_asan = {TRUE}
    /\ options.force_msan = {FALSE}
    /\ calls["w1"].perTarget = [race |-> {}, msan |-> {TRUE}, asan |-> {FALSE}]
    /\ calls["w1"].result = [race |-> FALSE, msan |-> TRUE, asan |-> TRUE]

ConfigType ==
    [coverage_mode : {"SET", "COUNT", "ATOMIC"},
     _coverage_output_dir : {default_coverage_output_dir, TemplatePlain, TemplateUnknown},
     coverage_html : BOOLEAN,
     coverage_include_patterns : {<<>>, <<"net/...">>},
     skip : BOOLEAN,
     force_race : BOOLEAN,
     force_msan : BOOLEAN,
     force_asan : BOOLEAN]

C5_NothingPublishedOnFailure ==
    /\ ~ValidRaw =>
          /\ phase \in {"init", "failed"}
          /\ config = {}
          /\ \A w \in Workers : calls[w] = NoCall
    /\ phase = "failed" => (~ValidRaw /\ error = "InvalidChoice")
    /\ config # {} =>
          /\ phase = "ready"
          /\ config \subseteq ConfigType
          /\ Self.coverage_mode =
                (IF options.coverage_mode = {} THEN "SET"
                 ELSE ModeMember(CHOOSE v \in options.coverage_mode : TRUE))
    /\ (\E w \in Workers : calls[w] # NoCall) => (phase = "ready" /\ config # {})

\* C5: with an invalid raw coverage mode construction ends failed, no worker
\* observes a configuration and no other mode is substituted; a worker that
\* has read the configuration read a completely constructed one.
C5_FailedValidationNeverPublishes ==
    /\ []C5_NothingPublishedOnFailure
    /\ (~ValidRaw) ~> (phase = "failed")

C5_Witness ==
    /\ phase = "failed"
    /\ options.coverage_mode = {"bogus"}
    /\ error = "InvalidChoice"
    /\ config = {}

\* C6: once published, the configuration keeps its constructed value in
\* every state, and every completed call holds the result the same call
\* gives on the constructed configuration alone.
C6_NeverMutated ==
    LET constructed == GoTestSubsystem(options)
    IN  /\ config # {} => config = {constructed}
        /\ \A w \in Workers :
              /\ calls[w].op = "coverage_output_dir" =>
                    calls[w].result
                        = ExpandTemplate(constructed, calls[w].distdir, calls[w].import_path)
              /\ calls[w].op = "resolveSanitizers" =>
                    calls[w].result = resolveSanitizers(constructed, calls[w].perTarget)
              /\ calls[w].op = "read" => calls[w].result = constructed

C6_Witness ==
    /\ calls["w1"].op = "coverage_output_dir"
    /\ calls["w1"].result.ok
    /\ calls["w2"].op = "resolveSanitizers"
    /\ options.force_race = {TRUE}

\* C7: construction with no option overridden yields SET, HTML on, skip
\* off, the three force flags off, no include patterns and the template
\* "{distdir}/coverage/go/{import_path_escaped}".
C7_Defaults ==
    (phase = "ready" /\ options = NoOverrides) =>
        Self = [coverage_mode |-> "SET",
                _coverage_output_dir |-> DefaultTemplateText,
                coverage_html |-> TRUE,
                coverage_include_patterns |-> <<>>,
                skip |-> FALSE,
                force_race |-> FALSE,
                force_msan |-> FALSE,
                force_asan |-> FALSE]

C7_Witness == phase = "ready" /\ options = NoOverrides /\ config # {}

TemplateOf(opts) == ValueOr(opts._coverage_output_dir, DefaultTemplateText)

HasRecognizedField(s) ==
    IsInfix(Field(distdir_name), s) \/ IsInfix(Field(import_path_escaped_name), s)

\* C8: a distdir or import path that itself holds a placeholder is inserted
\* literally and appears unexpanded in the result, and each field of the
\* template is replaced exactly once.
C8_SinglePass ==
    (expanded # NoCall /\ expanded.result.ok) =>
        LET t == TemplateOf(options)
            d == expanded.distdir.relpath
            e == Escaped(expanded.import_path)
            nd == Occurrences(Field(distdir_name), t)
            ne == Occurrences(Field(import_path_escaped_name), t)
            onlyFields == CountChar("{", t) = nd + ne /\ CountChar("}", t) = nd + ne
        IN  /\ (HasRecognizedField(d) /\ nd > 0) => IsInfix(d, expanded.result.path)
            /\ (HasRecognizedField(e) /\ ne > 0) => IsInfix(e, expanded.result.path)
            /\ onlyFields =>
                  Len(expanded.result.formatted) + nd * Len(Field(distdir_name))
                        + ne * Len(Field(import_path_escaped_name))
                     = Len(t) + nd * Len(d) + ne * Len(e)

C8_Witness ==
    /\ DefaultTemplateCall
    /\ expanded.distdir.relpath = Field(import_path_escaped_name)
    /\ expanded.import_path = Field(distdir_name)
    /\ expanded.result.path =
          Field(import_path_escaped_name) \o CoverageGoSlash \o Field(distdir_name)

\* s holds a "{...}" token: an opening brace closed with no brace between
HasPlaceholderToken(s) ==
    \E i \in 1..Len(s) : s[i] = "{" /\ NextBrace(s, i) # 0 /\ s[NextBrace(s, i)] = "}"

BraceFree(s) == CountChar("{", s) = 0 /\ CountChar("}", s) = 0

DifferOnlyBySlashUnderscore(p, q) ==
    /\ Len(p) = Len(q)
    /\ p # q
    /\ \A i \in 1..Len(p) : p[i] = q[i] \/ {p[i], q[i]} = {"/", "_"}

\* C10: the escaped import path has the length of the import path, "_" where
\* it has "/", the same character elsewhere and no "/"; a path without "/"
\* is unchanged; paths that differ only in "/" against "_" get the same
\* escaped value and the same output directory.
C10_EscapingTotalAndLossy ==
    expanded # NoCall =>
        LET p == expanded.import_path
            e == expanded.result.import_path_escaped
        IN  /\ Len(e) = Len(p)
            /\ \A i \in 1..Len(p) : e[i] = (IF p[i] = "/" THEN "_" ELSE p[i])
            /\ CountChar("/", e) = 0
            /\ CountChar("/", p) = 0 => e = p
            /\ \A q \in ImportPaths :
                  DifferOnlyBySlashUnderscore(p, q) =>
                      coverage_output_dir(Self, expanded.distdir, q).result
                          = expanded.result

C10_Witness ==
    /\ expanded # NoCall
    /\ expanded.import_path = <<"a", "/", "b">>
    /\ expanded.result.import_path_escaped = <<"a", "_", "b">>
    /\ <<"a", "_", "b">> \in ImportPaths
    /\ expanded.result.ok

====
